---------------------------- MODULE Spec2Model ----------------------------
(***************************************************************************)
(* P4 Search: the search controller of main.py (the event loop, the        *)
(* validation of the form, the p4 grep invocation and its retry loop) and  *)
(* the FileManager operations it rests on.                                 *)
(*                                                                         *)
(* A text is a sequence of tokens.  Where the code looks inside a string   *)
(* (os.path.basename, str.splitlines, newline translation of text files)   *)
(* the tokens are single characters; a fixed text the code only passes on  *)
(* (a flag, a message) is a one-token sequence.  The empty string is <<>>. *)
(***************************************************************************)
EXTENDS Integers, Sequences, FiniteSets, TLC

VARIABLES
    pc,        \* position of the event loop of start_event
    values,    \* the form values read by window.read() for the current Search
    args,      \* the local `args` of start_event / send_command
    matches,   \* the local `matches` of the innermost send_command frame
    errors,    \* the local `errors` of the innermost send_command frame
    output,    \* content of the '-OUTPUT-' panel
    status,    \* content of the '-STATUS-' line
    cwd,       \* the process-wide working directory
    log,       \* what the current (or last) Search trigger did, in order
    fs,        \* the file the FileManager content operations work on
    linesep,   \* os.linesep of the platform the program runs on
    hist,      \* the last content writes that succeeded, oldest first
    call       \* the last FileManager call: arguments, outcome, OS calls made

ctl == <<pc, values, args, matches, errors, output, status, cwd, log>>
fm == <<fs, linesep, hist, call>>
vars == <<ctl, fm>>

-----------------------------------------------------------------------------
(* Bounds of the model *)

\* Retry choices the user makes in one run.
MaxRetries == 2
\* Length of the standard output of one p4 grep invocation, in characters.
MaxOut == 2
\* Length of a content string handed to a FileManager operation.
MaxContent == 2
\* Length of the file on disk, in characters.
MaxFile == 5

-----------------------------------------------------------------------------
(* The environment: the file system, the form, the external tool *)

\* Directories that exist.
Dirs == { <<"/", "h">>, <<"/", "r">>, <<"/", "r", "/", "s">>, <<"/", "p">> }

\* Existing directories os.chdir cannot enter (no traverse permission).
NoAccess == { <<"/", "p">> }

\* The directory the application is started in.
StartDir == <<"/", "h">>

\* Contents of the '-PATH-' field.
PathInputs ==
    { <<>>, <<"/", "r">>, <<"/", "r", "/">>, <<"/", "r", "/", "s">>, <<"s">>,
      <<"/", "x">>, <<"/", "p">> }

\* Contents of the '-PATTERN-' field.
PatternInputs == { <<>>, <<"TODO">> }

\* Characters of the tool's standard output: a letter and two line ends.
OutChars == { "m", "\n", "\r" }

RECURSIVE Texts(_, _)
Texts(chars, n) ==
    IF n = 0 THEN { <<>> }
    ELSE LET shorter == Texts(chars, n - 1)
         IN  shorter \cup { Append(t, c) : t \in shorter, c \in chars }

\* Decoded standard-error texts of the tool.
ErrTexts == { <<>>, <<"permission denied">> }

\* Texts of the exceptions subprocess.run or decode() raise.
RaiseTexts == { <<"[WinError 2] The system cannot find the file specified">> }

\* What one subprocess.run of the tool can do.
ProcResults ==
    [ kind : {"done"}, stdout : Texts(OutChars, MaxOut), stderr : ErrTexts ]
    \cup { [ kind |-> "raise", text |-> t ] : t \in RaiseTexts }

-----------------------------------------------------------------------------
(* os.path and os, as far as the controller uses them *)

\* The directory a path names for the OS: a relative path is taken from the
\* working directory, one trailing separator is dropped (no dot segments,
\* no drive letters in PathInputs).
AbsPath(dir, path) ==
    LET joined == IF path # <<>> /\ path[1] = "/" THEN path
                  ELSE dir \o <<"/">> \o path
        n == Len(joined)
    IN  IF n > 1 /\ joined[n] = "/" THEN SubSeq(joined, 1, n - 1) ELSE joined

\* os.path.isdir
IsDir(dir, path) == AbsPath(dir, path) \in Dirs

\* os.path.basename: what follows the last separator.
RECURSIVE LastSep(_, _)
LastSep(path, i) ==
    IF i = 0 THEN 0
    ELSE IF path[i] = "/" THEN i ELSE LastSep(path, i - 1)

BaseName(path) == SubSeq(path, LastSep(path, Len(path)) + 1, Len(path))


-----------------------------------------------------------------------------
(* Python values, as far as FileManager._validate_params tells them apart *)

PyStr(t)   == [ kind |-> "str",   val |-> t ]
PyList(s)  == [ kind |-> "list",  val |-> s ]
PyTuple(s) == [ kind |-> "tuple", val |-> s ]
PyInt(n)   == [ kind |-> "int",   val |-> n ]

\* bool(v): an empty string or collection and the number 0 are false.
Truthy(v) == IF v.kind = "int" THEN v.val # 0 ELSE v.val # <<>>

\* isinstance(v, type_)
IsInstance(v, type) == v.kind = type

\* isinstance(v, (list, tuple, dict, set))
IsCollection(v) == v.kind \in { "list", "tuple", "dict", "set" }

Min(a, b) == IF a <= b THEN a ELSE b

\* FileManager._validate_params: TRUE when it raises
\* ValueError('Unable to {op}: invalid parameter').  `types` is the
\* sequence of type names (a lone type is wrapped like a lone parameter).
ValidateParamsRaises(params, types) ==
    LET ps == IF IsCollection(params) THEN params.val ELSE << params >>
    IN  \E i \in 1 .. Min(Len(ps), Len(types)) :
            ~ (Truthy(ps[i]) /\ IsInstance(ps[i], types[i]))

\* FileManager.is_directory: the exception raised ("" for none) and the
\* value returned.
IsDirectory(dir, path) ==
    IF ValidateParamsRaises(path, << "str" >>)
    THEN [ exc |-> "ValueError", ret |-> FALSE ]
    ELSE [ exc |-> "", ret |-> IsDir(dir, path.val) ]

\* A change_directory that leaves the working directory where it was.
ChangeDirectoryStay(dir, path) ==
    IF ValidateParamsRaises(path, << "str" >>)
    THEN [ exc |-> "ValueError", cwd |-> dir ]
    ELSE IF ~ IsDir(dir, path.val)
    THEN [ exc |-> "FileNotFoundError", cwd |-> dir ]
    ELSE IF AbsPath(dir, path.val) \in NoAccess
    THEN [ exc |-> "PermissionError", cwd |-> dir ]
    ELSE [ exc |-> "", cwd |-> dir ]

\* FileManager.change_directory: the exception raised ("" for none) and the
\* working directory afterwards.
ChangeDirectory(dir, path) ==
    IF ValidateParamsRaises(path, << "str" >>)
    THEN [ exc |-> "ValueError", cwd |-> dir ]
    ELSE IF ~ IsDir(dir, path.val)
    THEN [ exc |-> "FileNotFoundError", cwd |-> dir ]
    ELSE IF AbsPath(dir, path.val) \in NoAccess
    THEN [ exc |-> "PermissionError", cwd |-> dir ]
    ELSE [ exc |-> "", cwd |-> AbsPath(dir, path.val) ]

\* FileManager.get_base_name
GetBaseName(path) ==
    IF ValidateParamsRaises(path, << "str" >>)
    THEN [ exc |-> "ValueError", ret |-> <<>> ]
    ELSE [ exc |-> "", ret |-> BaseName(path.val) ]

-----------------------------------------------------------------------------
(* filemanager.py: the content operations *)

\* The one file path the content operations are tried on.
FilePath == << "/t/f.txt" >>

\* A second name in the same directory.
DirPath == << "/t/d" >>

\* A name in a directory that does not exist, and one in a directory the
\* process has no permission for: every OS call on them fails.
OrphanPath == << "/t/x/f" >>
ProtectedPath == << "/p/f" >>

\* A byte the default encoding cannot decode.
Undecodable == "0xFF"

\* What a name holds: nothing, a file with its bytes, or a directory.
Absent == [ kind |-> "absent", data |-> <<>> ]
File(data) == [ kind |-> "file", data |-> data ]
Directory == [ kind |-> "dir", data |-> <<>> ]

\* The file system before anything is created: `exists` and `data` are the
\* file at FilePath, `tree` every other name (and FilePath as a directory).
NoTree == [ p \in { FilePath, DirPath } |-> Absent ]

\* What the name p holds in the file system f.
Entry(f, p) ==
    IF p = FilePath /\ f.exists THEN File(f.data)
    ELSE IF p \in DOMAIN f.tree THEN f.tree[p]
    ELSE Absent

\* The file system f with the name p holding e.
Put(f, p, e) ==
    IF p = FilePath
    THEN [ exists |-> e.kind = "file",
           data   |-> e.data,
           tree   |-> [ f.tree EXCEPT ![p] = IF e.kind = "file" THEN Absent ELSE e ] ]
    ELSE [ f EXCEPT !.tree[p] = e ]

\* The error every OS call on the name p fails with, "" when it has none.
StaticError(p) ==
    IF p = OrphanPath THEN "FileNotFoundError"
    ELSE IF p = ProtectedPath THEN "PermissionError"
    ELSE ""

\* os.linesep tells the platform: POSIX or Windows.
Posix(sep) == sep = << "\n" >>

PyBool(b) == [ kind |-> "bool", val |-> b ]
PyNone    == [ kind |-> "none", val |-> <<>> ]

\* What a text-mode file object writes for a string: with the default
\* newline=None every \n becomes os.linesep.
RECURSIVE WriteTranslate(_, _)
WriteTranslate(text, sep) ==
    IF text = <<>> THEN <<>>
    ELSE (IF text[1] = "\n" THEN sep ELSE << text[1] >>)
             \o WriteTranslate(Tail(text), sep)

\* What a text-mode file object reads: with the default newline=None the
\* line ends \r\n and \r come back as \n.
RECURSIVE ReadTranslate(_)
ReadTranslate(data) ==
    IF data = <<>> THEN <<>>
    ELSE IF data[1] = "\r"
    THEN << "\n" >> \o ReadTranslate(
             IF Len(data) > 1 /\ data[2] = "\n" THEN Tail(Tail(data)) ELSE Tail(data))
    ELSE << data[1] >> \o ReadTranslate(Tail(data))

\* ''.join of the strings of a list, as file.writelines writes them.
RECURSIVE Concat(_)
Concat(lines) ==
    IF lines = <<>> THEN <<>> ELSE lines[1].val \o Concat(Tail(lines))

\* The outcome of a FileManager call: the exception raised ("" for none)
\* with its message, the value returned, the OS calls made, the file after.
Outcome(exc, msg, ret, os, f) ==
    [ exc |-> exc, msg |-> msg, ret |-> ret, os |-> os, fs |-> f ]

\* raise ValueError(f'Unable to {op}: invalid parameter')
InvalidParameter(op, f) ==
    Outcome("ValueError", << "Unable to ", op, ": invalid parameter" >>, PyNone, <<>>, f)

\* The text of an exception as the OS call raised it.
OsText(raw, p) ==
    IF raw = "FileNotFoundError" THEN << "[Errno 2] No such file or directory: " >> \o p
    ELSE IF raw = "FileExistsError" THEN << "[Errno 17] File exists: " >> \o p
    ELSE IF raw = "PermissionError" THEN << "[Errno 13] Permission denied: " >> \o p
    ELSE IF raw = "IsADirectoryError" THEN << "[Errno 21] Is a directory: " >> \o p
    ELSE IF raw = "NotADirectoryError" THEN << "[Errno 20] Not a directory: " >> \o p
    ELSE IF raw = "UnicodeDecodeError" THEN << "codec can't decode byte 0xff" >>
    ELSE << raw >> \o p

\* The exception classes `except OSError` catches.
OSErrors ==
    { "FileNotFoundError", "FileExistsError", "PermissionError",
      "IsADirectoryError", "NotADirectoryError", "OSError" }

\* The except clauses of _op_handler: the exception and message raised for
\* the exception `raw` with text `text`.
Translate(raw, text) ==
    IF raw = "FileNotFoundError"
    THEN [ exc |-> "FileNotFoundError", msg |-> << "No such file or directory" >> ]
    ELSE IF raw = "FileExistsError"
    THEN [ exc |-> "FileExistsError", msg |-> << "File already exists" >> ]
    ELSE IF raw = "PermissionError"
    THEN [ exc |-> "PermissionError", msg |-> << "Insufficient file permissions" >> ]
    ELSE IF raw \in OSErrors
    THEN [ exc |-> "OSError", msg |-> << "OS error during file operation" >> ]
    ELSE IF raw = "UnicodeDecodeError"
    THEN [ exc |-> "ValueError", msg |-> << "Unable to read file content" >> ]
    ELSE [ exc |-> "ValueError", msg |-> text ]

\* _op_handler when the OS call `os` raised `raw` on the name p.
Raised(raw, p, os, f) ==
    LET t == Translate(raw, OsText(raw, p))
    IN  Outcome(t.exc, t.msg, PyNone, os, f)

\* The mode of open(): mode = op[0]
Mode(op) ==
    IF op \in { "read", "readline", "readlines" } THEN "r"
    ELSE IF op \in { "write", "writelines" } THEN "w"
    ELSE "a"

\* _op_handler for listdir, mkdir, rename, remove and rmdir on the name p
\* (`new` is the second name of rename).
NameOp(f, sep, p, op, new) ==
    LET e == Entry(f, p)
    IN  IF StaticError(p) # "" THEN Raised(StaticError(p), p, << "os." \o op >>, f)
        ELSE IF op = "mkdir"
        THEN IF e.kind # "absent" THEN Raised("FileExistsError", p, << "os.mkdir" >>, f)
             ELSE Outcome("", <<>>, PyNone, << "os.mkdir" >>, Put(f, p, Directory))
        ELSE IF e.kind = "absent" THEN Raised("FileNotFoundError", p, << "os." \o op >>, f)
        ELSE IF op = "listdir"
        THEN IF e.kind = "file" THEN Raised("NotADirectoryError", p, << "os.listdir" >>, f)
             ELSE Outcome("", <<>>, PyList(<<>>), << "os.listdir" >>, f)
        ELSE IF op = "remove"
        THEN IF e.kind = "dir"
             THEN Raised(IF Posix(sep) THEN "IsADirectoryError" ELSE "PermissionError",
                         p, << "os.remove" >>, f)
             ELSE Outcome("", <<>>, PyNone, << "os.remove" >>, Put(f, p, Absent))
        ELSE IF op = "rmdir"
        THEN IF e.kind = "file" THEN Raised("NotADirectoryError", p, << "os.rmdir" >>, f)
             ELSE Outcome("", <<>>, PyNone, << "os.rmdir" >>, Put(f, p, Absent))
        ELSE \* rename
             LET d == Entry(f, new.val)
             IN  IF StaticError(new.val) # ""
                 THEN Raised(StaticError(new.val), new.val, << "os.rename" >>, f)
                 ELSE IF d.kind # "absent" /\ ~ Posix(sep)
                 THEN Raised("FileExistsError", new.val, << "os.rename" >>, f)
                 ELSE IF d.kind = "dir" /\ e.kind = "file"
                 THEN Raised("IsADirectoryError", new.val, << "os.rename" >>, f)
                 ELSE IF d.kind = "file" /\ e.kind = "dir"
                 THEN Raised("NotADirectoryError", new.val, << "os.rename" >>, f)
                 ELSE Outcome("", <<>>, PyNone, << "os.rename" >>,
                              Put(Put(f, new.val, e), p, Absent))

\* FileManager._op_handler
OpHandler(f, sep, path, op, data) ==
    IF path.kind # "str"
    THEN \* open() raises TypeError, which `except Exception` turns into ValueError(e)
         Outcome("ValueError",
                 << "expected str, bytes or os.PathLike object, not ", path.kind >>,
                 PyNone, << "open" >>, f)
    ELSE IF op \in { "listdir", "mkdir", "rename", "remove", "rmdir" }
    THEN NameOp(f, sep, path.val, op, data)
    ELSE IF StaticError(path.val) # ""
    THEN Raised(StaticError(path.val), path.val, << "open" >>, f)
    ELSE IF Entry(f, path.val).kind = "dir"
    THEN Raised(IF Posix(sep) THEN "IsADirectoryError" ELSE "PermissionError",
                path.val, << "open" >>, f)
    ELSE IF Mode(op) = "r" /\ Entry(f, path.val).kind = "absent"
    THEN Raised("FileNotFoundError", path.val, << "open" >>, f)
    ELSE IF op = "read"
    THEN IF \E i \in DOMAIN Entry(f, path.val).data :
                Entry(f, path.val).data[i] = Undecodable
         THEN Raised("UnicodeDecodeError", path.val, << "open", "read" >>, f)
         ELSE Outcome("", <<>>, PyStr(ReadTranslate(Entry(f, path.val).data)),
                      << "open", "read" >>, f)
    ELSE IF op = "write"
    THEN Outcome("", <<>>, PyNone, << "open", "write" >>,
                 Put(f, path.val, File(WriteTranslate(data.val, sep))))
    ELSE IF op = "append"
    THEN Outcome("", <<>>, PyNone, << "open", "write" >>,
                 Put(f, path.val,
                     File(Entry(f, path.val).data \o WriteTranslate(data.val, sep))))
    ELSE IF op = "writelines"
    THEN IF \E i \in DOMAIN data.val : data.val[i].kind # "str"
         THEN \* write() raises TypeError after open() has truncated the file
              Outcome("ValueError", << "write() argument must be str" >>,
                      PyNone, << "open", "writelines" >>,
                      Put(f, path.val, File(<<>>)))
         ELSE Outcome("", <<>>, PyNone, << "open", "writelines" >>,
                      Put(f, path.val, File(WriteTranslate(Concat(data.val), sep))))
    ELSE Outcome("ValueError", << "unsupported operation" >>, PyNone, <<>>, f)

\* FileManager.is_file
is_file(f, path) ==
    IF ValidateParamsRaises(path, << "str" >>)
    THEN InvalidParameter("validate file", f)
    ELSE IF path.kind # "str"
    THEN \* os.stat raises TypeError, which os.path.isfile does not catch
         Outcome("TypeError",
                 << "stat: path should be string, bytes, os.PathLike or integer, not ",
                    path.kind >>,
                 PyNone, << "os.stat" >>, f)
    ELSE Outcome("", <<>>, PyBool(Entry(f, path.val).kind = "file"), << "os.stat" >>, f)

\* FileManager.read_content
read_content(f, sep, path) ==
    IF ValidateParamsRaises(path, << "str" >>)
    THEN InvalidParameter("read content", f)
    ELSE OpHandler(f, sep, path, "read", PyStr(<<>>))

\* FileManager.write_content
write_content(f, sep, content, path) ==
    IF ValidateParamsRaises(PyTuple(<< content, path >>), << "str", "str" >>)
    THEN InvalidParameter("write content", f)
    ELSE OpHandler(f, sep, path, "write", content)

\* FileManager.append_content
append_content(f, sep, content, path) ==
    IF ValidateParamsRaises(PyTuple(<< content, path >>), << "str", "str" >>)
    THEN InvalidParameter("append content", f)
    ELSE OpHandler(f, sep, path, "append", content)

\* FileManager.write_lines
write_lines(f, sep, lines, path) ==
    IF ValidateParamsRaises(PyTuple(<< lines, path >>), << "list", "str" >>)
    THEN InvalidParameter("write lines", f)
    ELSE OpHandler(f, sep, path, "writelines", lines)

\* FileManager.clear_file_content
clear_file_content(f, sep, path) ==
    IF ValidateParamsRaises(path, << "str" >>)
    THEN InvalidParameter("clear content", f)
    ELSE OpHandler(f, sep, path, "write", PyStr(<<>>))

\* FileManager.create_file
create_file(f, sep, path) ==
    IF ValidateParamsRaises(path, << "str" >>)
    THEN InvalidParameter("create file", f)
    ELSE OpHandler(f, sep, path, "write", PyStr(<<>>))

\* FileManager.rename_file
rename_file(f, sep, new_path, path) ==
    IF ValidateParamsRaises(PyTuple(<< new_path, path >>), << "str", "str" >>)
    THEN InvalidParameter("rename file", f)
    ELSE OpHandler(f, sep, path, "rename", new_path)

\* FileManager.delete_file
delete_file(f, sep, path) ==
    IF ValidateParamsRaises(path, << "str" >>)
    THEN InvalidParameter("delete file", f)
    ELSE OpHandler(f, sep, path, "remove", PyStr(<<>>))

\* FileManager.list_directory_contents
list_directory_contents(f, sep, path) ==
    IF ValidateParamsRaises(path, << "str" >>)
    THEN InvalidParameter("list directory", f)
    ELSE OpHandler(f, sep, path, "listdir", PyStr(<<>>))

\* FileManager.create_directory
create_directory(f, sep, path) ==
    IF ValidateParamsRaises(path, << "str" >>)
    THEN InvalidParameter("create directory", f)
    ELSE OpHandler(f, sep, path, "mkdir", PyStr(<<>>))

\* FileManager.rename_directory
rename_directory(f, sep, new_path, path) ==
    IF ValidateParamsRaises(PyTuple(<< new_path, path >>), << "str", "str" >>)
    THEN InvalidParameter("rename directory", f)
    ELSE OpHandler(f, sep, path, "rename", new_path)

\* FileManager.delete_directory
delete_directory(f, sep, path) ==
    IF ValidateParamsRaises(path, << "str" >>)
    THEN InvalidParameter("delete directory", f)
    ELSE OpHandler(f, sep, path, "rmdir", PyStr(<<>>))

\* FileManager.change_directory as its caller sees it: os.chdir is called
\* outside _op_handler, so its exception arrives as the OS raised it.
change_directory(dir, path) ==
    LET r == ChangeDirectory(dir, path)
    IN  IF r.exc = "ValueError"
        THEN [ exc |-> r.exc, msg |-> << "Unable to ", "change directory", ": invalid parameter" >>,
               ret |-> PyNone, os |-> <<>>, cwd |-> r.cwd ]
        ELSE IF r.exc # ""
        THEN [ exc |-> r.exc, msg |-> OsText(r.exc, path.val),
               ret |-> PyNone, os |-> << "os.chdir" >>, cwd |-> r.cwd ]
        ELSE [ exc |-> "", msg |-> <<>>, ret |-> PyStr(<<>>),
               os |-> << "os.chdir" >>, cwd |-> r.cwd ]

-----------------------------------------------------------------------------
(* mbox.py: the message box *)

\* _validate_param: button_values
button_values ==
    "OK" :> 0 @@ "OKCANCEL" :> 1 @@ "ABORTRETRYIGNORE" :> 2 @@ "YESNOCANCEL" :> 3 @@
    "YESNO" :> 4 @@ "RETRYCANCEL" :> 5 @@ "CANCELTRYCONTINUE" :> 6 @@ "OKHELP" :> 16384

\* _validate_param: icon_values
icon_values ==
    "NOICON" :> 0 @@ "ICONSTOP" :> 16 @@ "ICONERROR" :> 16 @@ "ICONHAND" :> 16 @@
    "ICONQUESTION" :> 32 @@ "ICONEXCLAMATION" :> 48 @@ "ICONWARNING" :> 48 @@
    "ICONINFORMATION" :> 64 @@ "ICONASTERISK" :> 64

\* show: return_values
return_values ==
    1 :> "OK" @@ 2 :> "CANCEL" @@ 3 :> "ABORT" @@ 4 :> "RETRY" @@ 5 :> "IGNORE" @@
    6 :> "YES" @@ 7 :> "NO" @@ 10 :> "TRYAGAIN" @@ 11 :> "CONTINUE"

\* `value in param_values[key]`: value is a key of the dictionary d.
InDict(value, d) ==
    value.kind = "str" /\ Len(value.val) = 1 /\ value.val[1] \in DOMAIN d

\* raise ValueError('Invalid {} parameter specified'.format(key))
InvalidParam(key) ==
    [ exc |-> "ValueError", msg |-> << "Invalid ", key, " parameter specified" >>,
      values |-> <<>> ]

\* A _validate_param that lets any icon through.
ValidateParamAnyIcon(title, text, button, icon) ==
    IF title.kind # "str" THEN InvalidParam("title")
    ELSE IF text.kind # "str" THEN InvalidParam("text")
    ELSE IF ~ InDict(button, button_values) THEN InvalidParam("button")
    ELSE [ exc |-> "", msg |-> <<>>,
           values |-> << button_values[button.val[1]],
                         IF InDict(icon, icon_values) THEN icon_values[icon.val[1]] ELSE 0 >> ]

\* _validate_param(title=, text=, button=, icon=): the keyword arguments are
\* checked in that order; the values of button and icon are returned.
ValidateParam(title, text, button, icon) ==
    IF title.kind # "str" THEN InvalidParam("title")
    ELSE IF text.kind # "str" THEN InvalidParam("text")
    ELSE IF ~ InDict(button, button_values) THEN InvalidParam("button")
    ELSE IF ~ InDict(icon, icon_values) THEN InvalidParam("icon")
    ELSE [ exc |-> "", msg |-> <<>>,
           values |-> << button_values[button.val[1]], icon_values[icon.val[1]] >> ]

\* What MessageBoxW can return for a button style: the identifier of a button
\* it shows, or 0 when the call fails.
NativeResults(btn_value) ==
    { 0 } \cup
    ( IF btn_value = 1 THEN { 1, 2 }
      ELSE IF btn_value = 2 THEN { 3, 4, 5 }
      ELSE IF btn_value = 3 THEN { 6, 7, 2 }
      ELSE IF btn_value = 4 THEN { 6, 7 }
      ELSE IF btn_value = 5 THEN { 4, 2 }
      ELSE IF btn_value = 6 THEN { 2, 10, 11 }
      ELSE { 1 } )

\* ctypes.windll.user32.MessageBoxW(0, text, title, style), as a call made.
MessageBoxW(style) == << "MessageBoxW", ToString(style) >>

\* show(title, text, button, icon) when MessageBoxW, if called, returns
\* `result`.
show(title, text, button, icon, result) ==
    LET v == ValidateParam(title, text, button, icon)
    IN  IF v.exc # ""
        THEN [ exc |-> v.exc, msg |-> v.msg, ret |-> PyNone, os |-> <<>> ]
        ELSE IF result \notin DOMAIN return_values
        THEN [ exc |-> "KeyError", msg |-> << ToString(result) >>, ret |-> PyNone,
               os |-> MessageBoxW(v.values[1] + v.values[2]) ]
        ELSE [ exc |-> "", msg |-> <<>>, ret |-> PyStr(<< return_values[result] >>),
               os |-> MessageBoxW(v.values[1] + v.values[2]) ]

-----------------------------------------------------------------------------
(* main.py: the search controller *)

GUI_TITLE == << "P4 Search" >>

\* The button a show_error call shows when the caller names none.
DefaultButton == "OK"

\* The buttons a message box of each button set can return.
Answers(button) ==
    IF button = "RETRYCANCEL" THEN { "RETRY", "CANCEL" } ELSE { "OK" }

\* show_error(text, button): the message box mbox.show puts up.
ShowError(text, button) ==
    [ ev |-> "dialog", title |-> GUI_TITLE, text |-> text,
      icon |-> "ICONERROR", button |-> button ]

\* The button pressed in the message box.
Answer(b) == [ ev |-> "answer", value |-> b ]

\* update_gui(window, key, value)
Update(key, value) == [ ev |-> "update", key |-> key, value |-> value ]

\* The Search event with the form values and the working directory at the
\* time of window.read().
Trigger(v, dir) == [ ev |-> "search", values |-> v, cwd |-> dir ]

\* The message of the first failing check of start_event, <<>> when all pass.
Validate(v, dir) ==
    IF v.path = <<>> THEN << "Missing path" >>
    ELSE IF ~ IsDirectory(dir, PyStr(v.path)).ret THEN << "Invalid path" >>
    ELSE IF v.pattern = <<>> THEN << "Missing pattern" >>
    ELSE <<>>

\* list.insert(0, x)
Insert0(list, x) == << x >> \o list

\* An argument list with the case test inverted.
BuildArgsInverted(v) ==
    LET glob == GetBaseName(PyStr(v.path)).ret \o << "\\", "*", "\\", "*", ".", "p", "y" >>
        base == << <<"-n">>, <<"-s">>, <<"-e">>, v.pattern, glob >>
    IN  IF v.case THEN Insert0(base, <<"-i">>) ELSE base

\* The argument list start_event builds.
BuildArgs(v) ==
    LET glob == GetBaseName(PyStr(v.path)).ret \o << "\\", "*", "\\", "*", ".", "p", "y" >>
        base == << <<"-n">>, <<"-s">>, <<"-e">>, v.pattern, glob >>
    IN  IF ~ v.case THEN Insert0(base, <<"-i">>) ELSE base

\* cmd = ['p4', 'grep'] + args
Cmd(a) == << <<"p4">>, <<"grep">> >> \o a

\* subprocess.run(cmd, capture_output=True)
Run(cmd) == [ ev |-> "invoke", cmd |-> cmd ]

\* A retry that prepends the case flag again.
RetryArgsAgain(a) == Insert0(a, <<"-i">>)

\* The argument send_command passes to itself on RETRY.
RetryArgs(a) == a

\* str.splitlines(): the line ends it splits at.  Python also splits at
\* \v, \x1c, \x1d, \x1e, \x85, U+2028 and U+2029, which OutChars leaves out;
\* \r\n counts as one line end.
LineEnds == { "\n", "\r", "\f" }

RECURSIVE SplitFrom(_, _, _)
SplitFrom(s, i, cur) ==
    IF i > Len(s) THEN (IF cur = <<>> THEN <<>> ELSE << cur >>)
    ELSE IF s[i] \in LineEnds
    THEN LET eol == IF s[i] = "\r" /\ i < Len(s) /\ s[i + 1] = "\n" THEN 2 ELSE 1
         IN  << cur >> \o SplitFrom(s, i + eol, <<>>)
    ELSE SplitFrom(s, i + 1, Append(cur, s[i]))

SplitLines(s) == SplitFrom(s, 1, <<>>)

\* f'**{total_matches} matches found**\n{matches}'
Rendered(out) ==
    LET total_matches == IF out # <<>> THEN Len(SplitLines(out)) ELSE 0
        shown         == IF out # <<>> THEN out ELSE <<>>
    IN  << "**", ToString(total_matches), " matches found**", "\n" >> \o shown

\* A string returned by send_command.
StrRet(t) == [ isStr |-> TRUE, val |-> t ]

\* A send_command that returns '' after the except branch.
EmptyStr == StrRet(<<>>)

\* The None send_command returns after the except branch.
None == [ isStr |-> FALSE, val |-> <<>> ]

\* What start_event does with the value send_command returned: a string is
\* rendered and the status passes through Complete; None is not.
AfterSend(ret) ==
    IF ret.isStr
    THEN << Update("-OUTPUT-", Rendered(ret.val)),
            Update("-STATUS-", << "Status: Complete" >>),
            [ ev |-> "sleep", seconds |-> 1 ],
            Update("-STATUS-", << "Status: Idle" >>) >>
    ELSE << Update("-STATUS-", << "Status: Idle" >>) >>

\* send_command returned `ret` to start_event: the run ends.
Return(ret, done) ==
    /\ log' = done \o AfterSend(ret)
    /\ output' = IF ret.isStr THEN Rendered(ret.val) ELSE output
    /\ status' = << "Status: Idle" >>
    /\ pc' = "idle"


\* No FileManager call has been made yet.
NoCall ==
    [ op |-> "", args |-> <<>>, exc |-> "", msg |-> <<>>, ret |-> PyNone, os |-> <<>> ]

Init ==
    /\ pc = "idle"
    /\ values = [ path |-> <<>>, pattern |-> <<>>, case |-> FALSE ]
    /\ args = <<>>
    /\ matches = <<>>
    /\ errors = <<>>
    /\ output = <<>>
    /\ status = << "Status: Idle" >>
    /\ cwd = StartDir
    /\ log = <<>>
    /\ fs = [ exists |-> FALSE, data |-> <<>>, tree |-> NoTree ]
    /\ linesep = << "\r", "\n" >>
    /\ hist = <<>>
    /\ call = NoCall

\* A failed check that also clears the panel.
ReportInvalidClearing(v, msg) ==
    /\ log' = << Trigger(v, cwd), ShowError(msg, DefaultButton), Answer("OK") >>
    /\ pc' = "idle"
    /\ output' = <<>>
    /\ UNCHANGED << args, matches, errors, status, cwd >>

\* A failed check: one OK message box, nothing else.
ReportInvalid(v, msg) ==
    /\ log' = << Trigger(v, cwd), ShowError(msg, DefaultButton), Answer("OK") >>
    /\ pc' = "idle"
    /\ UNCHANGED << args, matches, errors, output, status, cwd >>

\* The checks passed: the panel is cleared, the working directory switched,
\* the arguments built and the status set; send_command is entered.  An
\* exception of change_directory is caught nowhere and ends the program.
StartRun(v) ==
    LET cd == ChangeDirectory(cwd, PyStr(v.path))
        t  == << Trigger(v, cwd), Update("-OUTPUT-", <<>>) >>
    IN  /\ output' = <<>>
        /\ matches' = <<>>
        /\ errors' = <<>>
        /\ IF cd.exc # ""
           THEN /\ log' = Append(t, [ ev |-> "uncaught", exc |-> cd.exc ])
                /\ pc' = "crashed"
                /\ UNCHANGED << args, status, cwd >>
           ELSE /\ cwd' = cd.cwd
                /\ args' = BuildArgs(v)
                /\ status' = << "Status: In Progress" >>
                /\ log' = t \o << [ ev |-> "chdir", cwd |-> cd.cwd ],
                                  [ ev |-> "args", value |-> BuildArgs(v) ],
                                  Update("-STATUS-", << "Status: In Progress" >>) >>
                /\ pc' = "running"

\* event == 'Search'
Search ==
    /\ pc = "idle"
    /\ \E p \in PathInputs, pat \in PatternInputs, c \in BOOLEAN :
        LET v == [ path |-> p, pattern |-> pat, case |-> c ]
            msg == Validate(v, cwd)
        IN  /\ values' = v
            /\ IF msg # <<>> THEN ReportInvalid(v, msg) ELSE StartRun(v)
    /\ UNCHANGED fm

\* event == sg.WINDOW_CLOSED
Close ==
    /\ pc = "idle"
    /\ pc' = "closed"
    /\ UNCHANGED << values, args, matches, errors, output, status, cwd, log >>
    /\ UNCHANGED fm

\* send_command: subprocess.run raises, or decode() does.
InvokeRaises ==
    /\ pc = "running"
    /\ \E r \in ProcResults :
        /\ r.kind = "raise"
        /\ matches' = <<>>
        /\ errors' = <<>>
        /\ Return(None, log \o << Run(Cmd(args)),
                                  [ ev |-> "except", text |-> r.text ],
                                  ShowError(r.text, DefaultButton), Answer("OK") >>)
    /\ UNCHANGED << values, args, cwd >>
    /\ UNCHANGED fm

\* send_command: the tool ran and wrote nothing to standard error.
InvokeClean ==
    /\ pc = "running"
    /\ \E r \in ProcResults :
        /\ r.kind = "done"
        /\ r.stderr = <<>>
        /\ matches' = r.stdout
        /\ errors' = r.stderr
        /\ Return(StrRet(r.stdout), Append(log, Run(Cmd(args))))
    /\ UNCHANGED << values, args, cwd >>
    /\ UNCHANGED fm

\* send_command: the tool wrote to standard error; the Retry/Cancel box opens.
InvokeErrors ==
    /\ pc = "running"
    /\ \E r \in ProcResults :
        /\ r.kind = "done"
        /\ r.stderr # <<>>
        /\ matches' = r.stdout
        /\ errors' = r.stderr
        /\ log' = log \o << Run(Cmd(args)), ShowError(r.stderr, "RETRYCANCEL") >>
    /\ pc' = "retrywait"
    /\ UNCHANGED << values, args, output, status, cwd >>
    /\ UNCHANGED fm

\* The number of RETRY answers of the run so far.
Retries == Cardinality({ i \in DOMAIN log : log[i] = Answer("RETRY") })

\* show_error(...) == 'RETRY': return send_command(args)
Retry ==
    /\ pc = "retrywait"
    /\ "RETRY" \in Answers("RETRYCANCEL")
    /\ Retries < MaxRetries
    /\ log' = Append(log, Answer("RETRY"))
    /\ args' = RetryArgs(args)
    /\ pc' = "running"
    /\ UNCHANGED << values, matches, errors, output, status, cwd >>
    /\ UNCHANGED fm

\* Any other answer: send_command falls through to `return matches`.
Cancel ==
    /\ pc = "retrywait"
    /\ \E b \in Answers("RETRYCANCEL") \ { "RETRY" } :
        Return(StrRet(matches), Append(log, Answer(b)))
    /\ UNCHANGED << values, args, matches, errors, cwd >>
    /\ UNCHANGED fm

Next ==
    \/ Search
    \/ Close
    \/ InvokeRaises
    \/ InvokeClean
    \/ InvokeErrors
    \/ Retry
    \/ Cancel

Spec == Init /\ [][Next]_vars

-----------------------------------------------------------------------------
(* The FileManager operations as actions *)

\* Characters of a content string: a letter and two line ends.
ContentChars == { "a", "\n", "\r" }

\* The content strings tried (the empty one is refused by the operations).
Contents == { PyStr(t) : t \in Texts(ContentChars, MaxContent) }

\* The path of the file, as a string.
GoodPaths == { PyStr(FilePath) }

\* Values a caller can pass as a path.
AnyPaths ==
    { PyStr(FilePath), PyStr(<<>>), PyList(<< PyStr(FilePath) >>), PyList(<<>>),
      PyTuple(<< PyStr(FilePath) >>), PyTuple(<<>>), PyList(<< PyInt(1) >>),
      PyInt(1), PyInt(0) }

\* Values a caller can pass as content.
AnyContents ==
    { PyStr(<< "a" >>), PyStr(<<>>), PyList(<< PyStr(<< "a" >>) >>), PyInt(5) }

\* Values a caller can pass as lines.
AnyLines ==
    { PyList(<< PyStr(<< "a" >>), PyStr(<< "\n" >>) >>), PyList(<<>>),
      PyList(<< PyInt(1) >>), PyTuple(<< PyStr(<< "a" >>) >>), PyStr(<< "a" >>) }

\* The call made and what came of it.
Called(op, a, r) ==
    [ op |-> op, args |-> a, exc |-> r.exc, msg |-> r.msg, ret |-> r.ret, os |-> r.os ]

\* The last two successful writes, after one more.
Written(op, text) ==
    LET h == Append(hist, [ op |-> op, content |-> text ])
    IN  IF Len(h) > 2 THEN Tail(h) ELSE h

\* The writes remembered after a call with outcome r.
Remembered(op, r, text) ==
    IF r.exc = "" /\ op \notin { "is_file", "read_content" }
    THEN Written(op, text) ELSE hist

\* Every file of the file system f fits the bound.
Fits(f) ==
    /\ Len(f.data) <= MaxFile
    /\ \A p \in DOMAIN f.tree : Len(f.tree[p].data) <= MaxFile

IsFile(paths) ==
    \E path \in paths :
        LET r == is_file(fs, path)
        IN  /\ call' = Called("is_file", << path >>, r)
            /\ UNCHANGED << fs, hist, linesep, ctl >>

ReadContent(paths) ==
    \E path \in paths :
        LET r == read_content(fs, linesep, path)
        IN  /\ call' = Called("read_content", << path >>, r)
            /\ UNCHANGED << fs, hist, linesep, ctl >>

WriteContent(contents, paths) ==
    \E content \in contents, path \in paths :
        LET r == write_content(fs, linesep, content, path)
        IN  /\ Fits(r.fs)
            /\ fs' = r.fs
            /\ call' = Called("write_content", << content, path >>, r)
            /\ hist' = Remembered("write_content", r, content.val)
            /\ UNCHANGED << linesep, ctl >>

AppendContent(contents, paths) ==
    \E content \in contents, path \in paths :
        LET r == append_content(fs, linesep, content, path)
        IN  /\ Fits(r.fs)
            /\ fs' = r.fs
            /\ call' = Called("append_content", << content, path >>, r)
            /\ hist' = Remembered("append_content", r, content.val)
            /\ UNCHANGED << linesep, ctl >>

WriteLines(lineses, paths) ==
    \E lines \in lineses, path \in paths :
        LET r == write_lines(fs, linesep, lines, path)
        IN  /\ Fits(r.fs)
            /\ fs' = r.fs
            /\ call' = Called("write_lines", << lines, path >>, r)
            /\ hist' = Remembered("write_lines", r, <<>>)
            /\ UNCHANGED << linesep, ctl >>

ClearFileContent(paths) ==
    \E path \in paths :
        LET r == clear_file_content(fs, linesep, path)
        IN  /\ fs' = r.fs
            /\ call' = Called("clear_file_content", << path >>, r)
            /\ hist' = Remembered("clear_file_content", r, <<>>)
            /\ UNCHANGED << linesep, ctl >>

\* The file before the first call: absent, or holding anything.
InitFM ==
    /\ pc = "closed"
    /\ values = [ path |-> <<>>, pattern |-> <<>>, case |-> FALSE ]
    /\ args = <<>>
    /\ matches = <<>>
    /\ errors = <<>>
    /\ output = <<>>
    /\ status = << "Status: Idle" >>
    /\ cwd = StartDir
    /\ log = <<>>
    /\ fs \in { [ exists |-> FALSE, data |-> <<>>, tree |-> NoTree ],
                [ exists |-> TRUE, data |-> <<>>, tree |-> NoTree ],
                [ exists |-> TRUE, data |-> << "o", "l", "d" >>, tree |-> NoTree ] }
    /\ linesep \in { << "\n" >>, << "\r", "\n" >> }
    /\ hist = <<>>
    /\ call = NoCall

\* The content operations on the file, called with a string path.
NextFiles ==
    \/ ReadContent(GoodPaths)
    \/ WriteContent(Contents, GoodPaths)
    \/ AppendContent(Contents, GoodPaths)
    \/ ClearFileContent(GoodPaths)

SpecFiles == InitFM /\ [][NextFiles]_vars

\* The operations called with arguments of any kind.
NextParams ==
    \/ IsFile(AnyPaths)
    \/ ReadContent(AnyPaths)
    \/ WriteContent(AnyContents, AnyPaths)
    \/ AppendContent(AnyContents, AnyPaths)
    \/ WriteLines(AnyLines, AnyPaths)
    \/ ClearFileContent(AnyPaths)

SpecParams == InitFM /\ [][NextParams]_vars

\* The names the operations are tried on.
OsPaths ==
    { PyStr(FilePath), PyStr(DirPath), PyStr(OrphanPath), PyStr(ProtectedPath) }

\* The content written to them.
OsContents == { PyStr(<< "a", "a" >>) }

\* The directories change_directory is tried on: one that exists, one that
\* does not, one without permission, and the empty string.
ChdirPaths ==
    { PyStr(<< "/", "r" >>), PyStr(<< "/", "x" >>), PyStr(<< "/", "p" >>), PyStr(<<>>) }

CreateFile(paths) ==
    \E path \in paths :
        LET r == create_file(fs, linesep, path)
        IN  /\ fs' = r.fs
            /\ call' = Called("create_file", << path >>, r)
            /\ UNCHANGED << hist, linesep, ctl >>

RenameFile(paths) ==
    \E new_path \in paths, path \in paths :
        LET r == rename_file(fs, linesep, new_path, path)
        IN  /\ new_path # path
            /\ fs' = r.fs
            /\ call' = Called("rename_file", << new_path, path >>, r)
            /\ UNCHANGED << hist, linesep, ctl >>

DeleteFile(paths) ==
    \E path \in paths :
        LET r == delete_file(fs, linesep, path)
        IN  /\ fs' = r.fs
            /\ call' = Called("delete_file", << path >>, r)
            /\ UNCHANGED << hist, linesep, ctl >>

ListDirectoryContents(paths) ==
    \E path \in paths :
        LET r == list_directory_contents(fs, linesep, path)
        IN  /\ call' = Called("list_directory_contents", << path >>, r)
            /\ UNCHANGED << fs, hist, linesep, ctl >>

CreateDirectory(paths) ==
    \E path \in paths :
        LET r == create_directory(fs, linesep, path)
        IN  /\ fs' = r.fs
            /\ call' = Called("create_directory", << path >>, r)
            /\ UNCHANGED << hist, linesep, ctl >>

RenameDirectory(paths) ==
    \E new_path \in paths, path \in paths :
        LET r == rename_directory(fs, linesep, new_path, path)
        IN  /\ new_path # path
            /\ fs' = r.fs
            /\ call' = Called("rename_directory", << new_path, path >>, r)
            /\ UNCHANGED << hist, linesep, ctl >>

DeleteDirectory(paths) ==
    \E path \in paths :
        LET r == delete_directory(fs, linesep, path)
        IN  /\ fs' = r.fs
            /\ call' = Called("delete_directory", << path >>, r)
            /\ UNCHANGED << hist, linesep, ctl >>

ChangeDir(paths) ==
    \E path \in paths :
        LET r == change_directory(cwd, path)
        IN  /\ cwd' = r.cwd
            /\ call' = Called("change_directory", << path >>, r)
            /\ UNCHANGED << pc, values, args, matches, errors, output, status, log,
                            fs, linesep, hist >>

\* The names before the first call: the file absent, readable or not
\* decodable, the directory absent or there.
InitOS ==
    /\ pc = "closed"
    /\ values = [ path |-> <<>>, pattern |-> <<>>, case |-> FALSE ]
    /\ args = <<>>
    /\ matches = <<>>
    /\ errors = <<>>
    /\ output = <<>>
    /\ status = << "Status: Idle" >>
    /\ cwd = StartDir
    /\ log = <<>>
    /\ \E file \in { Absent, File(<< "o", "l", "d" >>), File(<< Undecodable >>) },
          dir \in { Absent, Directory } :
            fs = Put(Put([ exists |-> FALSE, data |-> <<>>, tree |-> NoTree ],
                         FilePath, file), DirPath, dir)
    /\ linesep \in { << "\n" >>, << "\r", "\n" >> }
    /\ hist = <<>>
    /\ call = NoCall

\* Every operation that reaches the OS, called with string arguments.
NextOS ==
    \/ CreateFile(OsPaths)
    \/ RenameFile(OsPaths)
    \/ DeleteFile(OsPaths)
    \/ ReadContent(OsPaths)
    \/ WriteContent(OsContents, OsPaths)
    \/ AppendContent(OsContents, OsPaths)
    \/ ListDirectoryContents(OsPaths)
    \/ CreateDirectory(OsPaths)
    \/ RenameDirectory(OsPaths)
    \/ DeleteDirectory(OsPaths)
    \/ ChangeDir(ChdirPaths)

SpecOS == InitOS /\ [][NextOS]_vars

\* Values a caller can pass as title and as text.
TitleInputs == { PyStr(GUI_TITLE), PyStr(<<>>), PyInt(5) }
TextInputs == { PyStr(<< "Missing path" >>), PyNone }

\* Values a caller can pass as button: the named button sets and values
\* that name none (other spelling, empty, a number of the table, None).
ButtonInputs ==
    { PyStr(<< b >>) : b \in DOMAIN button_values } \cup
    { PyStr(<< "ok" >>), PyStr(<< "RETRY" >>), PyStr(<<>>), PyInt(0), PyNone }

\* Values a caller can pass as icon.
IconInputs ==
    { PyStr(<< i >>) : i \in DOMAIN icon_values } \cup
    { PyStr(<< "iconerror" >>), PyStr(<< "ERROR" >>), PyStr(<<>>), PyInt(16), PyNone }

\* The results MessageBoxW can give for the button (any, when it names none).
ResultsFor(button) ==
    IF InDict(button, button_values) THEN NativeResults(button_values[button.val[1]])
    ELSE { 0 }

Show ==
    \E title \in TitleInputs, text \in TextInputs,
       button \in ButtonInputs, icon \in IconInputs :
        \E result \in ResultsFor(button) :
            /\ call' = Called("show", << title, text, button, icon >>,
                              show(title, text, button, icon, result))
            /\ UNCHANGED << fs, hist, linesep, ctl >>

\* No message box has been asked for yet.
InitDialog ==
    /\ InitFM
    /\ ~ fs.exists
    /\ linesep = << "\r", "\n" >>

NextDialog == Show

SpecDialog == InitDialog /\ [][NextDialog]_vars

-----------------------------------------------------------------------------
(* Properties of the search controller *)

Idle == << "Status: Idle" >>

\* The p4 grep invocations of the trigger so far, in order.
Invocations == SelectSeq(log, LAMBDA e : e.ev = "invoke")

\* The message boxes of the trigger so far, in order.
Dialogs == SelectSeq(log, LAMBDA e : e.ev = "dialog")

\* The event loop is not inside a handler.
AtRest == pc \in { "idle", "crashed", "closed" }

IsOutputUpdate(e) == e.ev = "update" /\ e.key = "-OUTPUT-"

IsStatusUpdate(e, text) == e.ev = "update" /\ e.key = "-STATUS-" /\ e.value = text

\* C1: after a Search trigger, p4 grep was invoked if and only if the
\* directory is non-empty, an existing directory, and the pattern non-empty;
\* otherwise nothing was invoked and exactly one OK error box was shown, with
\* the message of the first failing check.
C1_InvokedIffValid ==
    (AtRest /\ log # <<>>) =>
        LET v  == log[1].values
            ok == v.path # <<>> /\ IsDir(log[1].cwd, v.path) /\ v.pattern # <<>>
            msg == IF v.path = <<>> THEN << "Missing path" >>
                   ELSE IF ~ IsDir(log[1].cwd, v.path) THEN << "Invalid path" >>
                   ELSE << "Missing pattern" >>
        IN  /\ (Invocations # <<>>) <=> ok
            /\ ~ ok => Dialogs = << [ ev |-> "dialog", title |-> GUI_TITLE, text |-> msg,
                                      icon |-> "ICONERROR", button |-> "OK" ] >>

\* C2: when the user answers Cancel in the Retry/Cancel box, nothing is
\* written to the output panel after that answer, and the status ends Idle.
C2_CancelRendersNothing ==
    pc = "idle" =>
        \A i \in DOMAIN log :
            log[i] = Answer("CANCEL") =>
                /\ \A j \in DOMAIN log : j > i => ~ IsOutputUpdate(log[j])
                /\ status = Idle

C4_ArgumentVector ==
    \A i \in DOMAIN log :
        log[i].ev = "invoke" =>
            LET v    == log[1].values
                glob == BaseName(v.path) \o << "\\", "*", "\\", "*", ".", "p", "y" >>
                tail == << <<"-n">>, <<"-s">>, <<"-e">>, v.pattern, glob >>
            IN  /\ v.pattern # <<>>
                /\ log[i].cmd = << <<"p4">>, <<"grep">> >>
                                   \o (IF v.case THEN tail ELSE << <<"-i">> >> \o tail)

C4_Witness ==
    /\ Invocations # <<>>
    /\ values.case
    /\ values.path = << "/", "r", "/", "s" >>
    /\ Invocations[1].cmd[5] = <<"-e">>
    /\ Invocations[1].cmd[6] = << "TODO" >>

\* The lines of a text as the newline character alone separates them, a
\* last empty piece not counted.
RECURSIVE Newlines(_)
Newlines(s) ==
    IF s = <<>> THEN 0
    ELSE (IF s[1] = "\n" THEN 1 ELSE 0) + Newlines(Tail(s))

NewlineLines(s) ==
    Newlines(s) + (IF s # <<>> /\ s[Len(s)] # "\n" THEN 1 ELSE 0)

\* The run made an invocation that raised nothing and wrote nothing to
\* standard error.
EndedClean ==
    /\ pc = "idle"
    /\ Invocations # <<>>
    /\ errors = <<>>
    /\ \A i \in DOMAIN log : log[i].ev # "except"

\* C5: a run that ends with no process error leaves the panel at
\* "**N matches found**\n" plus the standard output, N the number of
\* newline-separated lines of the standard output.
C5_MatchCount ==
    EndedClean =>
        output = << "**", ToString(NewlineLines(matches)), " matches found**", "\n" >>
                    \o matches

\* C6: a launch failure shows exactly one OK box with the failure text, no
\* Retry/Cancel box and no invocation after it, renders nothing, never sets
\* Complete, and returns to Idle.
C6_LaunchFailure ==
    \A i \in DOMAIN log :
        log[i].ev = "except" =>
            /\ pc \in { "idle", "closed" }
            /\ status = Idle
            /\ output = <<>>
            /\ SubSeq(log, i + 1, Len(log)) =
                   << [ ev |-> "dialog", title |-> GUI_TITLE, text |-> log[i].text,
                        icon |-> "ICONERROR", button |-> "OK" ],
                      Answer("OK"),
                      Update("-STATUS-", Idle) >>
            /\ Cardinality({ j \in DOMAIN log :
                                log[j].ev = "dialog" /\ log[j].button = "OK" }) = 1
            /\ \A j \in DOMAIN log :
                   /\ ~ IsStatusUpdate(log[j], << "Status: Complete" >>)
                   /\ IsOutputUpdate(log[j]) => log[j].value = <<>>

C6_Witness ==
    /\ pc = "idle"
    /\ Retries = 1
    /\ \E i \in DOMAIN log : log[i].ev = "except"

\* C7: no failure is fatal: the event loop keeps running, and it waits for
\* an event with the status Idle.
C7_NeverFatal ==
    /\ pc # "crashed"
    /\ pc = "idle" => status = Idle

\* C8: a Search that fails validation leaves the output panel, the status
\* line and the working directory as they were.
C8_InvalidSearchChangesNothing ==
    [][ ( /\ pc = "idle"
          /\ pc' # "closed"
          /\ \/ values'.path = <<>>
             \/ ~ IsDir(cwd, values'.path)
             \/ values'.pattern = <<>> )
        => ( /\ output' = output
             /\ status' = status
             /\ cwd' = cwd
             /\ pc' = "idle" ) ]_vars

C8_Witness ==
    /\ pc = "idle"
    /\ Len(log) = 3
    /\ log[2].ev = "dialog"
    /\ log[2].text = << "Invalid path" >>
    /\ output # <<>>
    /\ cwd # StartDir

\* C14: the working directory changes only in the step that takes a
\* validated Search into the run, where it becomes the submitted directory
\* (resolved against the working directory of that moment) before anything
\* is invoked; no other step changes it.  The directory of a Search is
\* validated against the working directory of that moment.
C14_WorkingDirectory ==
    [][ /\ (cwd' # cwd) => (pc = "idle" /\ pc' = "running")
        /\ (pc = "idle" /\ pc' = "running") =>
                /\ IsDir(cwd, values'.path)
                /\ cwd' = AbsPath(cwd, values'.path)
                /\ SelectSeq(log', LAMBDA e : e.ev = "invoke") = <<>>
        /\ (pc = "idle" /\ pc' = "idle" /\ values'.path # <<>> /\ values'.pattern # <<>>) =>
                ~ IsDir(cwd, values'.path)
        /\ (pc = "running" /\ pc' = "idle") =>
                cwd' = AbsPath(log[1].cwd, log[1].values.path) ]_vars

\* A run has ended whose relative directory "s" was accepted because the
\* run before it had moved the working directory to /r.
C14_Witness ==
    /\ pc = "idle"
    /\ Invocations # <<>>
    /\ log[1].values.path = << "s" >>
    /\ log[1].cwd = << "/", "r" >>
    /\ cwd = << "/", "r", "/", "s" >>
    /\ ~ IsDir(StartDir, << "s" >>)

-----------------------------------------------------------------------------
(* Properties of the FileManager operations *)

\* The last call was a read_content that returned.
ReadReturned == call.op = "read_content" /\ call.exc = ""

\* C9: on one file, write_content(a) then read_content returns a;
\* write_content(a), append_content(b), read_content returns a+b;
\* clear_file_content then read_content returns the empty string.
C9_RoundTrip ==
    (ReadReturned /\ hist # <<>>) =>
        LET n == Len(hist)
        IN  /\ hist[n].op = "write_content" => call.ret = PyStr(hist[n].content)
            /\ hist[n].op = "clear_file_content" => call.ret = PyStr(<<>>)
            /\ (n = 2 /\ hist[1].op = "write_content" /\ hist[2].op = "append_content")
                   => call.ret = PyStr(hist[1].content \o hist[2].content)

\* The kinds of arguments each operation expects, in the order passed.
Expected(op) ==
    IF op \in { "write_content", "append_content" } THEN << "str", "str" >>
    ELSE IF op = "write_lines" THEN << "list", "str" >>
    ELSE << "str" >>

\* The name of the operation in its invalid-parameter message.
Unable(op) ==
    CASE op = "is_file" -> "validate file"
      [] op = "read_content" -> "read content"
      [] op = "write_content" -> "write content"
      [] op = "append_content" -> "append content"
      [] op = "write_lines" -> "write lines"
      [] op = "clear_file_content" -> "clear content"

\* An argument that is empty or not of the kind expected.
BadArgument(v, kind) == v.kind # kind \/ v.val = <<>>

\* C10: a call with an argument that is empty or of the wrong kind fails with
\* the invalid-parameter error and makes no OS path or file call.
C10_InvalidArgumentRejected ==
    (call.op # "" /\ \E i \in DOMAIN call.args :
                         BadArgument(call.args[i], Expected(call.op)[i])) =>
        /\ call.exc = "ValueError"
        /\ call.msg = << "Unable to ", Unable(call.op), ": invalid parameter" >>
        /\ call.os = <<>>

-----------------------------------------------------------------------------
(* Properties of the error taxonomy *)

\* The five kinds of failure and their messages.
Taxonomy ==
    { << "FileNotFoundError", << "No such file or directory" >> >>,
      << "FileExistsError", << "File already exists" >> >>,
      << "PermissionError", << "Insufficient file permissions" >> >>,
      << "OSError", << "OS error during file operation" >> >>,
      << "ValueError", << "Unable to read file content" >> >> }

\* C11: whatever the operation, a call that failed in the OS raised one of
\* the five kinds of the taxonomy with that kind's fixed message, never the
\* text of the OS error.
C11_UniformTaxonomy ==
    (call.exc # "" /\ call.os # <<>>) => << call.exc, call.msg >> \in Taxonomy

\* C12: create_file on a name that holds a file, and create_directory on a
\* name that holds a directory, fail with 'File already exists' and leave the
\* file system as it was.
C12_CreationCollision ==
    [][ ( \/ /\ call'.op = "create_file"
             /\ Entry(fs, call'.args[1].val).kind = "file"
          \/ /\ call'.op = "create_directory"
             /\ Entry(fs, call'.args[1].val).kind = "dir" )
        => ( /\ call'.exc = "FileExistsError"
             /\ call'.msg = << "File already exists" >>
             /\ fs' = fs ) ]_vars

-----------------------------------------------------------------------------
(* Properties of the message box *)

\* The button (icon) passed to the last show names no button set (icon).
BadButton == ~ InDict(call.args[3], button_values)
BadIcon == ~ InDict(call.args[4], icon_values)

\* C13: a show() whose button names no button set, or whose icon names no
\* icon, raised 'Invalid <parameter> parameter specified' and MessageBoxW
\* was not called, whichever of the two it is and whatever the title, the
\* text and the other selector are.
C13_InvalidSelectorRejected ==
    (call.op = "show" /\ (BadButton \/ BadIcon)) =>
        /\ call.exc = "ValueError"
        /\ call.msg \in { << "Invalid ", k, " parameter specified" >> :
                            k \in { "title", "text", "button", "icon" } }
        /\ call.os = <<>>

\* A show() with a valid title, text and button and an icon that names none
\* was refused for its icon.
C13_Witness ==
    /\ call.op = "show"
    /\ call.args[1] = PyStr(GUI_TITLE)
    /\ call.args[2].kind = "str"
    /\ call.args[3] = PyStr(<< "RETRYCANCEL" >>)
    /\ BadIcon
    /\ call.exc = "ValueError"
    /\ call.msg = << "Invalid ", "icon", " parameter specified" >>

=============================================================================
